---- MODULE Spec2Model ----
(***************************************************************************)
(* Model of the EMG analysis scripts of stats4_FE.                         *)
(*                                                                         *)
(*   emgmain.py        SPM ANOVA per (condition, leg), then pairwise       *)
(*                     paired t-tests with significant-block extraction    *)
(*   LvsR_emgstats.py  left-vs-right paired t-tests, significant phases    *)
(*                     taken from the clusters of the inference            *)
(*                                                                         *)
(* spm1d, pandas and matplotlib are external: a statistical test is an     *)
(* oracle that either raises or returns a curve z with one value per row   *)
(* of the pivoted matrix, a critical value zstar and (LvsR) its clusters.  *)
(*                                                                         *)
(* Strings are sequences of one-character strings, so that formatting is   *)
(* modelled by what it writes.  Sample indices are 0-based as in the       *)
(* source; TLA+ sequences are 1-based, so python's  a[i]  is  a[i + 1].    *)
(* TimePoint values are whole sample numbers >= 0 (the source compares a   *)
(* row count with their maximum, emgmain.py line 44).                      *)
(***************************************************************************)
EXTENDS Integers, Sequences, FiniteSets, TLC

VARIABLES
    script,          \* which script runs: "pairwise" (emgmain.py) or "lvr" (LvsR_emgstats.py)
    pc,              \* position of the script
    n_timepoints,    \* emgmain.py: df_filtered["TimePoint"].max()
    z,               \* t_results.z of the comparison at hand
    zstar,           \* t_results.zstar
    sig_indices,     \* emgmain.py: np.where(z > zstar)[0]
    block_idx,       \* history: the (start, end) sample indices behind each entry of sig_blocks
    sig_blocks,      \* emgmain.py: the formatted blocks / LvsR: significant_time_periods
    sig_phase,       \* the "Significant Gait Phases" cell written for the comparison
    n_rows,          \* LvsR: left_matrix.shape[0]
    h0reject,        \* LvsR: ttest_result.h0reject
    clusters,        \* LvsR: ttest_result.clusters
    conditions,      \* the conditions looped over
    ci,              \* index of the condition at hand (1-based)
    li,              \* emgmain.py: index of the leg at hand
    pi,              \* index of the muscle pair at hand
    nsubj,           \* emgmain.py: subjects with data, per muscle of the item at hand
    shapes,          \* the shapes of the two pivoted matrices of the comparison at hand
    pairwise_results, \* emgmain.py: rows of the item at hand
    all_results,     \* emgmain.py: one table per significant item
    final_results,   \* emgmain.py: the combined table written at the end
    results_table,   \* LvsR: the rows, written at the end
    error,           \* the call whose exception ended the script, "" while none
    invoked,         \* history: the shapes ttest_paired was last called with, <<>> before any call
    cell,            \* figure scripts: the "Significant Gait Phases" cell as read back
    spans,           \* figure scripts: the (start, end) of each ax.axvspan, in tenths of a percent
    dropped,         \* figure scripts: blocks skipped with "Skipping invalid phase format"
    anova_sig,       \* history: the (condition, leg) items whose ANOVA was significant, in loop order
    sheet,           \* main.py: the sheet (measure) at hand, by its position in xls.sheet_names
    groups,          \* main.py: the number of values of each condition group
    p_value,         \* main.py: the p-value of f_oneway, in thousandths
    comparisons,     \* main.py: the unordered pairs of conditions
    p_values,        \* main.py: the p-value of each pair's ttest_ind, in thousandths
    t_values,        \* history: the t statistic ttest_ind returned for each pair, in thousandths
    bonferroni_corrected,
    posthoc_results,
    all_posthoc_results

vars == <<script, pc, n_timepoints, z, zstar, sig_indices, block_idx, sig_blocks,
          sig_phase, n_rows, h0reject, clusters, conditions, ci, li, pi, nsubj,
          shapes, pairwise_results, all_results, final_results, results_table, error, invoked,
          cell, spans, dropped, anova_sig, sheet, groups, p_value, comparisons, p_values,
          t_values, bonferroni_corrected, posthoc_results, all_posthoc_results>>

\* the values of main.py
main_vars == <<sheet, groups, p_value, comparisons, p_values, t_values,
               bonferroni_corrected, posthoc_results, all_posthoc_results>>

\* the values of the figure scripts
fig_vars == <<cell, spans, dropped>>

\* the values of one comparison
cmp_vars == <<n_timepoints, z, zstar, sig_indices, block_idx, sig_blocks, sig_phase,
              n_rows, h0reject, clusters, shapes>>

----------------------------------------------------------------------------
(* Bounds of the model *)

\* longest statistic curve (rows of a pivoted matrix)
MaxN == 4
\* clusters returned by one inference
MaxClusters == 2
\* cluster endpoints are interpolated positions: Res steps per sample
Res == 2

\* sample values and critical values of the oracle's curves
CurveValues == -2 .. 2
Thresholds == {0, 1}

----------------------------------------------------------------------------
(* Strings *)

NoneStr == <<"N", "o", "n", "e">>
PercentStr == <<"%">>
DashStr == <<" ", "-", " ">>
SepStr == <<";", " ">>

Digit(d) == <<"0", "1", "2", "3", "4", "5", "6", "7", "8", "9">>[d + 1]

RECURSIVE IntStr(_)
IntStr(k) == IF k < 10 THEN <<Digit(k)>> ELSE IntStr(k \div 10) \o <<Digit(k % 10)>>

\* f"{x:.1f}" of a non-negative x given in tenths
Fmt1(t) == IntStr(t \div 10) \o <<".">> \o <<Digit(t % 10)>>

\* "; ".join(parts)
RECURSIVE Join(_)
Join(parts) ==
    IF Len(parts) = 0 THEN <<>>
    ELSE IF Len(parts) = 1 THEN parts[1]
    ELSE parts[1] \o SepStr \o Join(Tail(parts))

\* num / den rounded to the nearest integer, ties to even, as the :.1f
\* conversion rounds the value it is given
RoundDiv(num, den) ==
    LET q == num \div den
        r == num % den
    IN  IF 2 * r < den THEN q
        ELSE IF 2 * r > den THEN q + 1
        ELSE IF q % 2 = 0 THEN q ELSE q + 1

----------------------------------------------------------------------------
(* emgmain.py: significant-block extraction, lines 87-97 *)

\* line 88: the comparison inside np.where
AboveMut(v, zs) == v >= zs
Above(v, zs) == v > zs

\* line 88: np.where(t_results.z > t_results.zstar)[0]
RECURSIVE WhereFrom(_, _, _)
WhereFrom(zz, zs, i) ==
    IF i >= Len(zz) THEN <<>>
    ELSE (IF Above(zz[i + 1], zs) THEN <<i>> ELSE <<>>) \o WhereFrom(zz, zs, i + 1)

SigIndices(zz, zs) == WhereFrom(zz, zs, 0)

\* line 93: sig_indices[i] != sig_indices[i - 1] + 1
IsBreakMut(prev, cur) == cur # prev
IsBreak(prev, cur) == cur # prev + 1

\* lines 92-96: the loop over sig_indices; i is python's loop variable
RECURSIVE BlockLoop(_, _, _, _)
BlockLoop(si, i, start, acc) ==
    IF i >= Len(si) THEN Append(acc, <<start, si[Len(si)]>>)
    ELSE IF IsBreak(si[i], si[i + 1])
         THEN BlockLoop(si, i + 1, si[i + 1], Append(acc, <<start, si[i]>>))
         ELSE BlockLoop(si, i + 1, start, acc)

\* lines 89-96, the index pairs that are formatted
BlockIdxMut(si) == IF Len(si) > 0 THEN BlockLoop(si, 1, si[1], <<>>) ELSE << <<0, 0>> >>
BlockIdx(si) == IF Len(si) > 0 THEN BlockLoop(si, 1, si[1], <<>>) ELSE <<>>

\* lines 94, 96: start / n_timepoints * 100, in tenths of a percent as :.1f rounds it
PercentMut(i, n) == RoundDiv((i + 1) * 1000, n)
Percent(i, n) == RoundDiv(i * 1000, n)

\* lines 94, 96: f"{...:.1f}% - {...:.1f}%"
FormatBlockMut(s, e) == Fmt1(s) \o PercentStr \o DashStr \o Fmt1(s) \o PercentStr
FormatBlock(s, e) == Fmt1(s) \o PercentStr \o DashStr \o Fmt1(e) \o PercentStr

SigBlocks(idx, n) == [k \in 1 .. Len(idx) |-> FormatBlock(Percent(idx[k][1], n), Percent(idx[k][2], n))]

\* line 97 (LvsR line 78): "; ".join(sig_blocks) if sig_blocks else "None"
SigPhaseMut(blocks) == IF Len(blocks) > 1 THEN Join(blocks) ELSE NoneStr
SigPhase(blocks) == IF Len(blocks) > 0 THEN Join(blocks) ELSE NoneStr

\* LvsR lines 86-87: the samples the plot shades
Shaded(zz, zs) == {i \in 0 .. Len(zz) - 1 : zz[i + 1] > zs \/ zz[i + 1] < -zs}

----------------------------------------------------------------------------
(* LvsR_emgstats.py: phases from the clusters, lines 52-69 *)

\* a cluster whose endpoints are no pair (lines 59-61) or that raises in the try (line 68)
BadCluster == <<>>

\* lines 64-65: start_time * (100 / left_matrix.shape[0]); an endpoint e counts Res steps per sample
ClusterPercent(e, rows) == RoundDiv(e * 1000, Res * rows)

\* lines 54-69: one period per cluster with a pair of endpoints, the others skipped
RECURSIVE ClusterIdx(_)
ClusterIdx(cl) ==
    IF Len(cl) = 0 THEN <<>>
    ELSE (IF cl[1] = BadCluster THEN <<>> ELSE <<cl[1]>>) \o ClusterIdx(Tail(cl))

TimePeriods(idx, rows) == [k \in 1 .. Len(idx) |-> FormatBlock(ClusterPercent(idx[k][1], rows), ClusterPercent(idx[k][2], rows))]

----------------------------------------------------------------------------
(* The oracle's outputs *)

Curves(n) == [1 .. n -> CurveValues]

\* a cluster's endpoints lie on the curve, start <= end
ValidClusters(rows) == {c \in (0 .. Res * (rows - 1)) \X (0 .. Res * (rows - 1)) : c[1] <= c[2]}

\* clusters come in ascending order and do not overlap
Ascending(cl) ==
    \A k \in 1 .. Len(cl) - 1 :
        (cl[k] # BadCluster /\ cl[k + 1] # BadCluster) => cl[k][2] < cl[k + 1][1]

ClusterLists(rows) ==
    {cl \in UNION {[1 .. m -> ValidClusters(rows) \cup {BadCluster}] : m \in 0 .. MaxClusters} : Ascending(cl)}

----------------------------------------------------------------------------
(* The loops of the scripts, scaled down *)

\* emgmain.py line 15
legs == <<"Left", "Right">>

\* emgmain.py lines 13-14: the first three of the seven muscles of each leg
muscles_left == <<"BICEPSFEM_LT_uV", "LAT_GASTROLT_uV", "MED_GASTROLT_uV">>
muscles_right == <<"BICEPSFEM_RT_uV", "LAT_GASTRORT_uV", "MED_GASTRORT_uV">>

\* LvsR_emgstats.py lines 14-22: the first two of the seven left/right pairs
muscles == << <<"BICEPSFEM_LT_uV", "BICEPSFEM_RT_uV">>, <<"LAT_GASTROLT_uV", "LAT_GASTRORT_uV">> >>

\* LvsR_emgstats.py line 11: the first of the six conditions, as many as MaxConds
ConditionNames == <<"p20", "p10", "pref", "m10", "m20", "nopert">>

\* conditions of a run
MaxConds == 1
\* subjects with data for one muscle
MaxSubj == 2
MaxSheets == 2

\* emgmain.py line 31
MusclesOf(leg) == IF leg = "Left" THEN muscles_left ELSE muscles_right

\* emgmain.py line 72: list(combinations(muscles, 2)), in itertools' order
RECURSIVE PairsFrom(_, _, _)
PairsFrom(ms, i, j) ==
    IF i >= Len(ms) THEN <<>>
    ELSE IF j > Len(ms) THEN PairsFrom(ms, i + 1, i + 2)
    ELSE << <<ms[i], ms[j]>> >> \o PairsFrom(ms, i, j + 1)

Combinations2(ms) == PairsFrom(ms, 1, 2)

\* pandas: pivot(index="TimePoint", columns="Subject").values of k subjects
\* with TimePoints 1..n each has shape (n, k); of no rows, shape (0, 0)
PivotShape(n, k) == IF k = 0 THEN <<0, 0>> ELSE <<n, k>>

\* pd.concat(all_results, ignore_index=True), line 124
RECURSIVE Concat(_)
Concat(tables) == IF Len(tables) = 0 THEN <<>> ELSE tables[1] \o Concat(Tail(tables))

\* the curves the oracle returns in the loops: nothing significant, or everything
LoopCurves(n) == {[i \in 1 .. n |-> 0], [i \in 1 .. n |-> 2]}
LoopTimes == {2}
LoopClusters(rows) == {<<>>, <<BadCluster>>, << <<0, Res * (rows - 1)>> >>}

\* the item at hand
Condition == conditions[ci]
Leg == legs[li]

----------------------------------------------------------------------------
(* emgmain.py *)

\* lines 88-100: the row of one pair from the curve of its paired test
PairRow(cond, leg, m1, m2, zz, zs, n) ==
    <<cond, leg, m1, m2, SigPhase(SigBlocks(BlockIdx(SigIndices(zz, zs)), n))>>

Extracted(zz, zs, n) ==
    /\ n_timepoints' = n
    /\ z' = zz
    /\ zstar' = zs
    /\ sig_indices' = SigIndices(zz, zs)
    /\ block_idx' = BlockIdx(SigIndices(zz, zs))
    /\ sig_blocks' = SigBlocks(BlockIdx(SigIndices(zz, zs)), n)
    /\ sig_phase' = SigPhase(SigBlocks(BlockIdx(SigIndices(zz, zs)), n))

\* the loop header: the next (condition, leg), or the end of the loops
NextItem ==
    IF li < Len(legs) THEN /\ li' = li + 1
                           /\ ci' = ci
                           /\ pc' = "item"
    ELSE IF ci < Len(conditions) THEN /\ li' = 1
                                      /\ ci' = ci + 1
                                      /\ pc' = "item"
    ELSE /\ pc' = "final"
         /\ UNCHANGED <<ci, li>>

\* lines 29-51: filter the table, take n_timepoints, stack the ANOVA matrix.
\* np.vstack raises on an empty A_list, which is what a (condition, leg)
\* without rows gives.
StartItem ==
    /\ script = "pairwise"
    /\ pc = "item"
    /\ \E n \in LoopTimes, ns \in [1 .. Len(MusclesOf(Leg)) -> 0 .. MaxSubj] :
         /\ nsubj' = ns
         /\ IF \A m \in DOMAIN ns : ns[m] = 0
            THEN /\ error' = "np.vstack"
                 /\ pc' = "aborted"
                 /\ UNCHANGED n_timepoints
            ELSE /\ n_timepoints' = n
                 /\ pc' = "anova"
                 /\ UNCHANGED error
    /\ UNCHANGED <<fig_vars, main_vars, anova_sig, script, z, zstar, sig_indices, block_idx, sig_blocks, sig_phase,
                   n_rows, h0reject, clusters, shapes, conditions, ci, li, pi,
                   pairwise_results, all_results, final_results, results_table, invoked>>

\* lines 54-55: anova1rm raises
AnovaRaises ==
    /\ script = "pairwise"
    /\ pc = "anova"
    /\ error' = "anova1rm"
    /\ pc' = "aborted"
    /\ UNCHANGED <<fig_vars, main_vars, anova_sig, script, cmp_vars, conditions, ci, li, pi, nsubj, pairwise_results,
                   all_results, final_results, results_table, invoked>>

\* lines 54-69: the ANOVA is not significant, nothing more for this item
AnovaNotSignificant ==
    /\ script = "pairwise"
    /\ pc = "anova"
    /\ NextItem
    /\ UNCHANGED <<fig_vars, main_vars, anova_sig, script, cmp_vars, conditions, pi, nsubj, pairwise_results,
                   all_results, final_results, results_table, error, invoked>>

\* lines 54-73: the ANOVA is significant
AnovaSignificant ==
    /\ script = "pairwise"
    /\ pc = "anova"
    /\ pairwise_results' = <<>>
    /\ pi' = 1
    /\ anova_sig' = Append(anova_sig, <<Condition, Leg>>)
    /\ pc' = "pair"
    /\ UNCHANGED <<fig_vars, main_vars, script, cmp_vars, conditions, ci, li, nsubj,
                   all_results, final_results, results_table, error, invoked>>

\* the shapes of df_m1 and df_m2, lines 78-82
PairShapes ==
    LET ms == MusclesOf(Leg)
        pr == Combinations2(ms)[pi]
        k1 == CHOOSE k \in DOMAIN ms : ms[k] = pr[1]
        k2 == CHOOSE k \in DOMAIN ms : ms[k] = pr[2]
    IN  <<PivotShape(n_timepoints, nsubj[k1]), PivotShape(n_timepoints, nsubj[k2])>>

\* after the row of line 100: the next pair, or lines 112-121
AfterPair ==
    IF pi < Len(Combinations2(MusclesOf(Leg)))
    THEN /\ pi' = pi + 1
         /\ pc' = "pair"
    ELSE /\ pc' = "save"
         /\ UNCHANGED pi

\* line 84: ttest_paired is called with whatever the pivots gave; it raises
\* when the shapes differ or there is no data, and may raise on the data
PairTestRaises ==
    /\ script = "pairwise"
    /\ pc = "pair"
    /\ shapes' = PairShapes
    /\ invoked' = PairShapes
    /\ error' = "ttest_paired"
    /\ pc' = "aborted"
    /\ UNCHANGED <<fig_vars, main_vars, anova_sig, script, n_timepoints, z, zstar, sig_indices, block_idx, sig_blocks,
                   sig_phase, n_rows, h0reject, clusters, conditions, ci, li, pi, nsubj,
                   pairwise_results, all_results, final_results, results_table>>

\* lines 75-110: the test returns, the blocks are extracted, the row is stored
PairTest ==
    /\ script = "pairwise"
    /\ pc = "pair"
    /\ PairShapes[1] = PairShapes[2]
    /\ PairShapes[1] # <<0, 0>>
    /\ shapes' = PairShapes
    /\ invoked' = PairShapes
    /\ \E zz \in LoopCurves(PairShapes[1][1]), zs \in {1} :
         /\ Extracted(zz, zs, n_timepoints)
         /\ pairwise_results' =
               Append(pairwise_results,
                      PairRow(Condition, Leg, Combinations2(MusclesOf(Leg))[pi][1],
                              Combinations2(MusclesOf(Leg))[pi][2], zz, zs, n_timepoints))
    /\ AfterPair
    /\ UNCHANGED <<fig_vars, main_vars, anova_sig, script, n_rows, h0reject, clusters, conditions, ci, li, nsubj,
                   all_results, final_results, results_table, error>>

\* lines 112-121: the item's table is kept and written
SaveItem ==
    /\ script = "pairwise"
    /\ pc = "save"
    /\ all_results' = Append(all_results, pairwise_results)
    /\ NextItem
    /\ UNCHANGED <<fig_vars, main_vars, anova_sig, script, cmp_vars, conditions, pi, nsubj, pairwise_results,
                   final_results, results_table, error, invoked>>

\* lines 123-128: pd.concat raises on an empty list
Finish ==
    /\ script = "pairwise"
    /\ pc = "final"
    /\ IF Len(all_results) = 0
       THEN /\ error' = "pd.concat"
            /\ pc' = "aborted"
            /\ UNCHANGED final_results
       ELSE /\ final_results' = Concat(all_results)
            /\ pc' = "done"
            /\ UNCHANGED error
    /\ UNCHANGED <<fig_vars, main_vars, anova_sig, script, cmp_vars, conditions, ci, li, pi, nsubj, pairwise_results,
                   all_results, results_table, invoked>>

----------------------------------------------------------------------------
(* LvsR_emgstats.py *)

\* the loop header of lines 32-33
NextMuscle ==
    IF pi < Len(muscles) THEN /\ pi' = pi + 1
                              /\ ci' = ci
                              /\ pc' = "item"
    ELSE IF ci < Len(conditions) THEN /\ pi' = 1
                                      /\ ci' = ci + 1
                                      /\ pc' = "item"
    ELSE /\ pc' = "final"
         /\ UNCHANGED <<ci, pi>>

\* lines 35-40: the pivots of the two muscles, over the TimePoints of the table
LoadMuscle ==
    /\ script = "lvr"
    /\ pc = "item"
    /\ \E n \in LoopTimes, kl \in 0 .. MaxSubj, kr \in 0 .. MaxSubj :
         shapes' = <<PivotShape(n, kl), PivotShape(n, kr)>>
    /\ pc' = "shape"
    /\ UNCHANGED <<fig_vars, main_vars, anova_sig, script, n_timepoints, z, zstar, sig_indices, block_idx, sig_blocks,
                   sig_phase, n_rows, h0reject, clusters, conditions, ci, li, pi, nsubj,
                   pairwise_results, all_results, final_results, results_table,
                   error, invoked>>

\* lines 43-45: unequal shapes, this muscle is skipped
SkipMuscle ==
    /\ script = "lvr"
    /\ pc = "shape"
    /\ shapes[1] # shapes[2]
    /\ NextMuscle
    /\ UNCHANGED <<fig_vars, main_vars, anova_sig, script, cmp_vars, conditions, li, nsubj, pairwise_results,
                   all_results, final_results, results_table, error, invoked>>

\* line 48: ttest_paired raises (no data, or on the data); nothing catches it
LvRTestRaises ==
    /\ script = "lvr"
    /\ pc = "shape"
    /\ shapes[1] = shapes[2]
    /\ invoked' = shapes
    /\ error' = "ttest_paired"
    /\ pc' = "aborted"
    /\ UNCHANGED <<fig_vars, main_vars, anova_sig, script, cmp_vars, conditions, ci, li, pi, nsubj, pairwise_results,
                   all_results, final_results, results_table>>

\* lines 52-69 and 78: the periods of the clusters and the cell written
Periods(h0, cl, rows) ==
    /\ n_rows' = rows
    /\ h0reject' = h0
    /\ clusters' = cl
    /\ block_idx' = IF h0 THEN ClusterIdx(cl) ELSE <<>>
    /\ sig_blocks' = IF h0 THEN TimePeriods(ClusterIdx(cl), rows) ELSE <<>>
    /\ sig_phase' = SigPhase(IF h0 THEN TimePeriods(ClusterIdx(cl), rows) ELSE <<>>)

\* lines 74-79
LvRRow(cond, ml, mr, h0, cl, rows) ==
    <<cond, ml, mr, SigPhase(IF h0 THEN TimePeriods(ClusterIdx(cl), rows) ELSE <<>>)>>

\* lines 48-93: the test returns and the row is stored
LvRTest ==
    /\ script = "lvr"
    /\ pc = "shape"
    /\ shapes[1] = shapes[2]
    /\ shapes[1] # <<0, 0>>
    /\ invoked' = shapes
    /\ \E cl \in LoopClusters(shapes[1][1]) :
         /\ Periods(Len(cl) > 0, cl, shapes[1][1])
         /\ results_table' =
               Append(results_table,
                      LvRRow(Condition, muscles[pi][1], muscles[pi][2], Len(cl) > 0, cl, shapes[1][1]))
    /\ NextMuscle
    /\ UNCHANGED <<fig_vars, main_vars, anova_sig, script, n_timepoints, z, zstar, sig_indices, shapes, conditions, li,
                   nsubj, pairwise_results, all_results, final_results, error>>

\* lines 96-97: the table is written, whatever it holds
LvRFinish ==
    /\ script = "lvr"
    /\ pc = "final"
    /\ final_results' = results_table
    /\ pc' = "done"
    /\ UNCHANGED <<fig_vars, main_vars, anova_sig, script, cmp_vars, conditions, ci, li, pi, nsubj, pairwise_results,
                   all_results, results_table, error, invoked>>

----------------------------------------------------------------------------
(* The runs of the two scripts *)

\* nothing read or drawn yet
NoFigure ==
    /\ cell = [nan |-> FALSE, text |-> <<>>]
    /\ spans = <<>>
    /\ dropped = 0

\* no sheet parsed yet
NoSheet ==
    /\ sheet = 1
    /\ groups = <<>>
    /\ p_value = 0
    /\ comparisons = <<>>
    /\ p_values = <<>>
    /\ t_values = <<>>
    /\ bonferroni_corrected = <<>>
    /\ posthoc_results = <<>>
    /\ all_posthoc_results = <<>>

NoComparison ==
    /\ n_timepoints = 0
    /\ z = <<>>
    /\ zstar = 0
    /\ sig_indices = <<>>
    /\ block_idx = <<>>
    /\ sig_blocks = <<>>
    /\ sig_phase = <<>>
    /\ n_rows = 0
    /\ h0reject = FALSE
    /\ clusters = <<>>
    /\ shapes = <<>>

Init ==
    /\ script \in {"pairwise", "lvr"}
    /\ pc = "item"
    /\ NoComparison
    /\ conditions \in {SubSeq(ConditionNames, 1, k) : k \in 1 .. MaxConds}
    /\ ci = 1
    /\ li = 1
    /\ pi = 1
    /\ nsubj = <<>>
    /\ pairwise_results = <<>>
    /\ all_results = <<>>
    /\ final_results = <<>>
    /\ results_table = <<>>
    /\ error = ""
    /\ invoked = <<>>
    /\ anova_sig = <<>>
    /\ NoFigure
    /\ NoSheet

Next ==
    \/ StartItem
    \/ AnovaRaises
    \/ AnovaNotSignificant
    \/ AnovaSignificant
    \/ PairTestRaises
    \/ PairTest
    \/ SaveItem
    \/ Finish
    \/ LoadMuscle
    \/ SkipMuscle
    \/ LvRTestRaises
    \/ LvRTest
    \/ LvRFinish

Spec == Init /\ [][Next]_vars

----------------------------------------------------------------------------
(* One comparison of either script, with every curve the oracle can return *)

InitOne ==
    /\ script \in {"pairwise", "lvr"}
    /\ pc = "compare"
    /\ NoComparison
    /\ conditions = SubSeq(ConditionNames, 1, 1)
    /\ ci = 1
    /\ li = 1
    /\ pi = 1
    /\ nsubj = <<>>
    /\ pairwise_results = <<>>
    /\ all_results = <<>>
    /\ final_results = <<>>
    /\ results_table = <<>>
    /\ error = ""
    /\ invoked = <<>>
    /\ anova_sig = <<>>
    /\ NoFigure
    /\ NoSheet

\* emgmain.py lines 84-100 for the first muscle pair.  The curve has one value
\* per distinct TimePoint of the pair, so its length is at most
\* max TimePoint + 1; max TimePoint >= 1 where the ANOVA of line 69 was
\* significant.  Nothing in lines 88-100 raises.
PairwiseComparison ==
    /\ script = "pairwise"
    /\ pc = "compare"
    /\ \E len \in 0 .. MaxN, n \in 1 .. MaxN, zs \in Thresholds :
         /\ len <= n + 1
         /\ \E zz \in Curves(len) :
              /\ Extracted(zz, zs, n)
              /\ pairwise_results' =
                    Append(pairwise_results,
                           PairRow(Condition, Leg, Combinations2(MusclesOf(Leg))[pi][1],
                                   Combinations2(MusclesOf(Leg))[pi][2], zz, zs, n))
    /\ pc' = "compared"
    /\ UNCHANGED <<fig_vars, main_vars, anova_sig, script, n_rows, h0reject, clusters, shapes, conditions, ci, li, pi, nsubj,
                   all_results, final_results, results_table, error, invoked>>

\* LvsR_emgstats.py lines 52-79 for the first muscle; the inference rejects
\* exactly when it has clusters
LvRComparison ==
    /\ script = "lvr"
    /\ pc = "compare"
    /\ \E rows \in 1 .. MaxN :
         \E cl \in ClusterLists(rows) :
              /\ Periods(Len(cl) > 0, cl, rows)
              /\ results_table' =
                    Append(results_table,
                           LvRRow(Condition, muscles[pi][1], muscles[pi][2], Len(cl) > 0, cl, rows))
    /\ pc' = "compared"
    /\ UNCHANGED <<fig_vars, main_vars, anova_sig, script, n_timepoints, z, zstar, sig_indices, shapes, conditions, ci, li, pi,
                   nsubj, pairwise_results, all_results, final_results, error, invoked>>

NextOne == PairwiseComparison \/ LvRComparison

SpecOne == InitOne /\ [][NextOne]_vars

----------------------------------------------------------------------------
(* emgfigure.py and emgfig_LvR.py: the phases read back and highlighted *)

NanStr == <<"n", "a", "n">>

\* str.lower(), for the letters of the cells
LowerChar(c) == IF c = "N" THEN "n" ELSE IF c = "A" THEN "a" ELSE c
Lower(str) == [k \in 1 .. Len(str) |-> LowerChar(str[k])]

\* str.split(sep); cur is the part being read
RECURSIVE SplitFrom(_, _, _)
SplitFrom(str, sep, cur) ==
    IF Len(str) = 0 THEN <<cur>>
    ELSE IF Len(str) >= Len(sep) /\ SubSeq(str, 1, Len(sep)) = sep
         THEN <<cur>> \o SplitFrom(SubSeq(str, Len(sep) + 1, Len(str)), sep, <<>>)
         ELSE SplitFrom(Tail(str), sep, Append(cur, Head(str)))

Split(str, sep) == SplitFrom(str, sep, <<>>)

\* block.replace("%", "")
DropPercent(str) == SelectSeq(str, LAMBDA c : c # "%")

\* float() ignores the blanks around the number
RECURSIVE Strip(_)
Strip(str) ==
    IF Len(str) > 0 /\ Head(str) = " " THEN Strip(Tail(str))
    ELSE IF Len(str) > 0 /\ str[Len(str)] = " " THEN Strip(SubSeq(str, 1, Len(str) - 1))
    ELSE str

IsDigit(c) == c \in {"0", "1", "2", "3", "4", "5", "6", "7", "8", "9"}
DigitValue(c) == CHOOSE d \in 0 .. 9 : Digit(d) = c

RECURSIVE IntValue(_)
IntValue(str) == IF Len(str) = 0 THEN 0 ELSE 10 * IntValue(SubSeq(str, 1, Len(str) - 1)) + DigitValue(str[Len(str)])

\* what float() raises ValueError on
NotANumber == -1

\* float(text), in tenths: digits with at most one fraction digit, as the
\* reports write them; anything else here is no number
ParseFloat(text) ==
    LET t == Strip(text)
        dots == {k \in 1 .. Len(t) : t[k] = "."}
        digitsOnly == \A k \in 1 .. Len(t) : IsDigit(t[k]) \/ t[k] = "."
    IN  IF Len(t) = 0 \/ ~digitsOnly \/ Cardinality(dots) > 1 THEN NotANumber
        ELSE IF dots = {} THEN 10 * IntValue(t)
        ELSE LET d == CHOOSE k \in dots : TRUE
             IN  IF Len(t) = 1 \/ Len(t) - d > 1 THEN NotANumber
                 ELSE 10 * IntValue(SubSeq(t, 1, d - 1)) + IntValue(SubSeq(t, d + 1, Len(t)))

\* start, end = map(float, block.replace("%", "").split("-")): the span, or
\* <<>> where the unpacking or float() raises ValueError
ParseBlock(block) ==
    LET parts == Split(DropPercent(block), <<"-">>)
    IN  IF Len(parts) = 2 /\ ParseFloat(parts[1]) # NotANumber /\ ParseFloat(parts[2]) # NotANumber
        THEN <<ParseFloat(parts[1]), ParseFloat(parts[2])>>
        ELSE <<>>

\* emgfigure.py lines 54-60, emgfig_LvR.py lines 61-66: a span per block that parses
ParsedBlocks(phases) == [k \in 1 .. Len(Split(phases, SepStr)) |-> ParseBlock(Split(phases, SepStr)[k])]
SpansOf(phases) == SelectSeq(ParsedBlocks(phases), LAMBDA b : b # <<>>)
DroppedOf(phases) == Len(ParsedBlocks(phases)) - Len(SpansOf(phases))

\* emgfigure.py line 9, emgfig_LvR.py line 8: pd.read_excel.  The text comes
\* back as written, except that pandas can read the text "None" as a missing
\* value (NaN), which emgfigure.py line 53 provides for.
ReadResults ==
    /\ pc = "compared"
    /\ cell' \in {[nan |-> FALSE, text |-> sig_phase]}
                 \cup (IF sig_phase = NoneStr THEN {[nan |-> TRUE, text |-> <<>>]} ELSE {})
    /\ pc' = "read"
    /\ UNCHANGED <<main_vars, anova_sig, script, cmp_vars, conditions, ci, li, pi, nsubj, pairwise_results,
                   all_results, final_results, results_table, error, invoked, spans, dropped>>

\* emgfigure.py lines 51-60
HighlightPairwise ==
    /\ script = "pairwise"
    /\ pc = "read"
    /\ LET sig_phases == IF cell.nan THEN NanStr ELSE cell.text
       IN  IF sig_phases # NoneStr /\ Lower(sig_phases) # NanStr
           THEN /\ spans' = SpansOf(sig_phases)
                /\ dropped' = DroppedOf(sig_phases)
           ELSE /\ spans' = <<>>
                /\ dropped' = 0
    /\ pc' = "plotted"
    /\ UNCHANGED <<main_vars, anova_sig, script, cmp_vars, conditions, ci, li, pi, nsubj, pairwise_results,
                   all_results, final_results, results_table, error, invoked, cell>>

\* emgfig_LvR.py lines 58-66: the cell is compared with "None" and split as
\* it was read; a NaN has no split and the AttributeError ends the script
HighlightLvR ==
    /\ script = "lvr"
    /\ pc = "read"
    /\ IF cell.nan
       THEN /\ error' = "AttributeError"
            /\ pc' = "aborted"
            /\ UNCHANGED <<spans, dropped>>
       ELSE /\ IF cell.text # NoneStr
               THEN /\ spans' = SpansOf(cell.text)
                    /\ dropped' = DroppedOf(cell.text)
               ELSE /\ spans' = <<>>
                    /\ dropped' = 0
            /\ pc' = "plotted"
            /\ UNCHANGED error
    /\ UNCHANGED <<main_vars, anova_sig, script, cmp_vars, conditions, ci, li, pi, nsubj, pairwise_results,
                   all_results, final_results, results_table, invoked, cell>>

NextFig == PairwiseComparison \/ LvRComparison \/ ReadResults \/ HighlightPairwise \/ HighlightLvR

\* one comparison written, read back and highlighted
SpecFig == InitOne /\ [][NextFig]_vars

----------------------------------------------------------------------------
(* main.py: one-way ANOVA and Bonferroni post-hoc tests of each sheet *)

\* the columns of a sheet are its conditions (line 50)
SheetConditions == SubSeq(ConditionNames, 1, 3)

\* how many values a column holds that are not NaN
ValueCounts == {0, 2}

\* the results of scipy, in thousandths: 0.05 is 50, 1.0 is 1000
Alpha == 50
One == 1000
AnovaPValues == {10, 50, 200}
TTestPValues == {10, 400}
TTestStatistics == {-2500, 400}

\* the places of the groups that hold a value, in order
NonEmpty(counts) == SelectSeq([k \in 1 .. Len(counts) |-> k], LAMBDA k : counts[k] > 0)

\* np.minimum(p * len(comparisons), 1.0), line 113
Bonferroni(p, m) == IF p * m < One THEN p * m ELSE One

\* lines 116-122: the rows, with the names the zip of line 116 binds
PostHocRows(measure, cmps, corrected, ps) ==
    [k \in 1 .. Len(cmps) |->
        LET cond1 == cmps[k][1]
            cond2 == cmps[k][2]
            p_corr == corrected[k]
            t_stat == ps[k]
        IN  [Measure |-> measure, Comparison |-> <<cond1, cond2>>,
             TStat |-> t_stat, PBonferroni |-> p_corr]]

\* the loop header of line 43
NextSheet ==
    IF sheet < MaxSheets THEN /\ sheet' = sheet + 1
                              /\ pc' = "sheet"
    ELSE /\ pc' = "save"
         /\ UNCHANGED sheet

\* lines 43-76: the sheet in long format without its NaN rows, its conditions
\* and groups, and the groups without the empty ones
ParseSheet ==
    /\ script = "main"
    /\ pc = "sheet"
    /\ \E counts \in [DOMAIN SheetConditions -> ValueCounts] :
         LET present == NonEmpty(counts)
             unique == [k \in 1 .. Len(present) |-> SheetConditions[present[k]]]
             all_groups == [k \in 1 .. Len(present) |-> counts[present[k]]]
             valid == NonEmpty(all_groups)
         IN  /\ groups' = [k \in 1 .. Len(valid) |-> all_groups[valid[k]]]
             /\ conditions' = [k \in 1 .. Len(valid) |-> unique[valid[k]]]
    /\ posthoc_results' = <<>>
    /\ pc' = "gate"
    /\ UNCHANGED <<fig_vars, anova_sig, script, cmp_vars, ci, li, pi, nsubj, pairwise_results,
                   all_results, final_results, results_table, error, invoked, sheet, p_value,
                   comparisons, p_values, t_values, bonferroni_corrected, all_posthoc_results>>

\* lines 79, 154-155: fewer than two groups, no statistics for the sheet
SkipSheet ==
    /\ script = "main"
    /\ pc = "gate"
    /\ ~(Len(groups) >= 2)
    /\ NextSheet
    /\ UNCHANGED <<fig_vars, anova_sig, script, cmp_vars, conditions, ci, li, pi, nsubj,
                   pairwise_results, all_results, final_results, results_table, error, invoked,
                   groups, p_value, comparisons, p_values, t_values, bonferroni_corrected,
                   posthoc_results, all_posthoc_results>>

\* lines 79-104: the ANOVA, and the pairs of conditions when it is significant
OneWayAnova ==
    /\ script = "main"
    /\ pc = "gate"
    /\ Len(groups) >= 2
    /\ \E p \in AnovaPValues :
         /\ p_value' = p
         /\ IF p < Alpha
            THEN /\ comparisons' = Combinations2(conditions)
                 /\ p_values' = <<>>
                 /\ pc' = "posthoc"
            ELSE /\ pc' = "plot"
                 /\ UNCHANGED <<comparisons, p_values>>
    /\ UNCHANGED <<fig_vars, anova_sig, script, cmp_vars, conditions, ci, li, pi, nsubj,
                   pairwise_results, all_results, final_results, results_table, error, invoked,
                   sheet, groups, t_values, bonferroni_corrected, posthoc_results,
                   all_posthoc_results>>

\* lines 106-110: ttest_ind of each pair; its p-value is kept in p_values
PostHocTests ==
    /\ script = "main"
    /\ pc = "posthoc"
    /\ \E ts \in [1 .. Len(comparisons) -> TTestStatistics],
          ps \in [1 .. Len(comparisons) -> TTestPValues] :
         /\ t_values' = ts
         /\ p_values' = ps
    /\ pc' = "store"
    /\ UNCHANGED <<fig_vars, anova_sig, script, cmp_vars, conditions, ci, li, pi, nsubj,
                   pairwise_results, all_results, final_results, results_table, error, invoked,
                   sheet, groups, p_value, comparisons, bonferroni_corrected, posthoc_results,
                   all_posthoc_results>>

\* lines 113-125: the correction and the rows
StorePostHoc ==
    /\ script = "main"
    /\ pc = "store"
    /\ LET corrected == [k \in 1 .. Len(p_values) |-> Bonferroni(p_values[k], Len(comparisons))]
           rows == posthoc_results \o PostHocRows(sheet, comparisons, corrected, p_values)
       IN  /\ bonferroni_corrected' = corrected
           /\ posthoc_results' = rows
           /\ all_posthoc_results' = all_posthoc_results \o rows
    /\ pc' = "plot"
    /\ UNCHANGED <<fig_vars, anova_sig, script, cmp_vars, conditions, ci, li, pi, nsubj,
                   pairwise_results, all_results, final_results, results_table, error, invoked,
                   sheet, groups, p_value, comparisons, p_values, t_values>>

\* lines 127-152: the box plot of the sheet
BoxPlot ==
    /\ script = "main"
    /\ pc = "plot"
    /\ NextSheet
    /\ UNCHANGED <<fig_vars, anova_sig, script, cmp_vars, conditions, ci, li, pi, nsubj,
                   pairwise_results, all_results, final_results, results_table, error, invoked,
                   groups, p_value, comparisons, p_values, t_values, bonferroni_corrected,
                   posthoc_results, all_posthoc_results>>

\* lines 157-163: the tables are written
SaveAll ==
    /\ script = "main"
    /\ pc = "save"
    /\ pc' = "done"
    /\ UNCHANGED <<fig_vars, main_vars, anova_sig, script, cmp_vars, conditions, ci, li, pi,
                   nsubj, pairwise_results, all_results, final_results, results_table, error,
                   invoked>>

InitMain ==
    /\ script = "main"
    /\ pc = "sheet"
    /\ NoComparison
    /\ conditions = <<>>
    /\ ci = 1
    /\ li = 1
    /\ pi = 1
    /\ nsubj = <<>>
    /\ pairwise_results = <<>>
    /\ all_results = <<>>
    /\ final_results = <<>>
    /\ results_table = <<>>
    /\ error = ""
    /\ invoked = <<>>
    /\ anova_sig = <<>>
    /\ NoFigure
    /\ NoSheet

NextMain == ParseSheet \/ SkipSheet \/ OneWayAnova \/ PostHocTests \/ StorePostHoc \/ BoxPlot \/ SaveAll

SpecMain == InitMain /\ [][NextMain]_vars

----------------------------------------------------------------------------
(* Properties of one comparison (SpecOne) *)

\* the pairwise comparison has been made
Compared == pc = "compared" /\ script = "pairwise"

\* sample i of the curve is above the critical value
Significant(i) == z[i + 1] > zstar

\* the maximal runs of consecutive significant samples, as (first, last)
MaximalRuns ==
    {r \in (0 .. Len(z) - 1) \X (0 .. Len(z) - 1) :
        /\ r[1] <= r[2]
        /\ \A i \in r[1] .. r[2] : Significant(i)
        /\ r[1] = 0 \/ ~Significant(r[1] - 1)
        /\ r[2] = Len(z) - 1 \/ ~Significant(r[2] + 1)}

\* the samples inside some extracted interval
Covered == {i \in 0 .. Len(z) - 1 : \E k \in 1 .. Len(block_idx) : block_idx[k][1] <= i /\ i <= block_idx[k][2]}

\* the cell written for the comparison
Cell == IF script = "pairwise" THEN pairwise_results[1][5] ELSE results_table[1][4]

HasPrefix(str, p) == Len(str) >= Len(p) /\ SubSeq(str, 1, Len(p)) = p
HasSuffix(str, p) == Len(str) >= Len(p) /\ SubSeq(str, Len(str) - Len(p) + 1, Len(str)) = p

\* C1: for a curve of length N >= 1 the extraction gives exactly one
\* interval per maximal run of consecutive samples with z > zstar, from the
\* run's first index to its last (equal for a run of one sample), in
\* ascending index order.
C1_OneIntervalPerRun ==
    (Compared /\ Len(z) >= 1) =>
        /\ Len(sig_blocks) = Len(block_idx)
        /\ Len(block_idx) = Cardinality(MaximalRuns)
        /\ {block_idx[k] : k \in 1 .. Len(block_idx)} = MaximalRuns
        /\ \A k \in 1 .. Len(block_idx) - 1 : block_idx[k][1] < block_idx[k + 1][1]

C1_Witness ==
    /\ Compared
    /\ Len(block_idx) >= 2
    /\ \E k \in 1 .. Len(block_idx) : block_idx[k][1] = block_idx[k][2]
    /\ \E k \in 1 .. Len(block_idx) : block_idx[k][1] < block_idx[k][2]

\* C2: the intervals are pairwise disjoint and strictly ordered (each ends
\* before the next starts) and a sample lies inside an interval exactly when
\* it is significant.
C2_DisjointExactCover ==
    Compared =>
        /\ \A k \in 1 .. Len(block_idx) - 1 : block_idx[k][2] < block_idx[k + 1][1]
        /\ \A k \in 1 .. Len(block_idx) : block_idx[k][1] <= block_idx[k][2]
        /\ \A i \in 0 .. Len(z) - 1 : (i \in Covered) <=> (z[i + 1] > zstar)

C2_Witness ==
    /\ Compared
    /\ Len(block_idx) >= 2
    /\ \E i \in 0 .. Len(z) - 1 : z[i + 1] = zstar /\ i \notin Covered

C4_TwoTailedCover == Compared => Covered = Shaded(z, zstar)

C6_BoundaryPercents ==
    (Compared /\ Len(z) >= 1) =>
        /\ z[1] > zstar => HasPrefix(sig_blocks[1], <<"0", ".", "0", "%">>)
        /\ z[Len(z)] > zstar =>
              HasSuffix(sig_blocks[Len(sig_blocks)], <<" ", "1", "0", "0", ".", "0", "%">>)

\* C6 amended: a run containing index 0 starts at 0.0%; a run containing
\* the last index N-1 ends at (N-1) * 100 / n_timepoints to one decimal.
C6_BoundaryPercentsAmended ==
    (Compared /\ Len(z) >= 1) =>
        /\ z[1] > zstar => HasPrefix(sig_blocks[1], <<"0", ".", "0", "%">>)
        /\ z[Len(z)] > zstar =>
              HasSuffix(sig_blocks[Len(sig_blocks)],
                        <<" ">> \o Fmt1(RoundDiv((Len(z) - 1) * 1000, n_timepoints)) \o <<"%">>)

C6_Witness ==
    /\ Compared
    /\ Len(z) >= 3
    /\ n_timepoints = Len(z)
    /\ z[1] > zstar
    /\ z[Len(z)] > zstar
    /\ Len(sig_blocks) = 2
    /\ block_idx[2][1] < block_idx[2][2]

\* C7: a curve of length N >= 1 with every sample above the threshold gives
\* exactly one interval, from 0.0% to (N-1) * 100 / N.
C7_AllAbove ==
    (Compared /\ Len(z) >= 1 /\ \A i \in 1 .. Len(z) : z[i] > zstar) =>
        sig_blocks = << Fmt1(0) \o PercentStr \o DashStr
                        \o Fmt1(RoundDiv((Len(z) - 1) * 1000, Len(z))) \o PercentStr >>

\* C8: a curve with no sample above the threshold gives the empty sequence
\* and the cell "None"; "None" is written only for the empty sequence.
C8_NoneIffEmpty ==
    pc = "compared" =>
        /\ (Cell = NoneStr) <=> (Len(sig_blocks) = 0)
        /\ Cell = sig_phase
        /\ script = "pairwise" =>
              ((\A i \in 1 .. Len(z) : ~(z[i] > zstar)) => (Len(sig_blocks) = 0 /\ Cell = NoneStr))
        /\ script = "lvr" => (~h0reject => (Len(sig_blocks) = 0 /\ Cell = NoneStr))

C8_Witness ==
    /\ Compared
    /\ Len(z) >= 2
    /\ \A i \in 1 .. Len(z) : ~(z[i] > zstar)
    /\ \E i \in 1 .. Len(z) : z[i] = zstar
    /\ Cell = NoneStr

----------------------------------------------------------------------------
(* Properties of the loops (Spec) *)

\* C9: in every script that runs paired comparisons, matrices of different
\* shapes are detected before the paired test is invoked, so the test is
\* never called with them, and the comparison is skipped without ending the
\* run.
C9_MismatchSkipped ==
    /\ invoked # <<>> => invoked[1] = invoked[2]
    /\ (pc = "aborted" /\ error = "ttest_paired") => shapes[1] = shapes[2]

\* C10: a failure while processing one item (empty input, or the
\* statistical routine raising) does not end the run.
C10_ItemFailureIsolated == error \notin {"np.vstack", "anova1rm", "ttest_paired"}

----------------------------------------------------------------------------
(* Properties of the round trip (SpecFig) *)

\* the percentages behind the k-th reported interval, in tenths
Reported(k) ==
    LET den == IF script = "pairwise" THEN n_timepoints ELSE Res * n_rows
    IN  <<RoundDiv(block_idx[k][1] * 1000, den), RoundDiv(block_idx[k][2] * 1000, den)>>

\* the figure script is through with the cell
Highlighted == pc \in {"plotted", "aborted"}

\* C11: what the report wrote parses back to as many spans, in the same
\* order, each with the one-decimal start and end of its interval; "None"
\* gives no span; nothing is dropped as an invalid format and nothing fails.
C11_RoundTrip ==
    Highlighted =>
        /\ error = ""
        /\ dropped = 0
        /\ Len(spans) = Len(sig_blocks)
        /\ \A k \in 1 .. Len(spans) : spans[k] = Reported(k)

\* the same, for the cells that are read back as text
RoundTripOfText ==
    (Highlighted /\ ~cell.nan) =>
        /\ error = ""
        /\ dropped = 0
        /\ Len(spans) = Len(sig_blocks)
        /\ \A k \in 1 .. Len(spans) : spans[k] = Reported(k)

RoundTripOfText_Witness == pc = "plotted" /\ Len(spans) >= 2 /\ spans[2][1] < spans[2][2]

----------------------------------------------------------------------------
(* Properties of the end of the pairwise batch (Spec) *)

\* the first four fields of the rows of a table
PairKeys(table) == [k \in 1 .. Len(table) |-> SubSeq(table[k], 1, 4)]

\* one row per unordered muscle pair of an item, in loop order
ItemKeys(item) ==
    LET pairs == Combinations2(MusclesOf(item[2]))
    IN  [k \in 1 .. Len(pairs) |-> <<item[1], item[2], pairs[k][1], pairs[k][2]>>]

\* the rows of the significant items, in loop order
RECURSIVE ExpectedKeys(_)
ExpectedKeys(items) == IF Len(items) = 0 THEN <<>> ELSE ItemKeys(Head(items)) \o ExpectedKeys(Tail(items))

\* C12: whatever the ANOVA outcomes of the items, none significant included,
\* the pairwise batch does not fail in its final step, and the combined table
\* it writes holds one row per unordered muscle pair of exactly the items
\* whose ANOVA was significant, in loop order.
C12_RunsToFinalStep ==
    script = "pairwise" =>
        /\ ~(pc = "aborted" /\ error = "pd.concat")
        /\ pc = "done" => PairKeys(final_results) = ExpectedKeys(anova_sig)

\* the part of it that holds: a combined table that is written is right
CombinedTableOfSignificant ==
    (script = "pairwise" /\ pc = "done") => PairKeys(final_results) = ExpectedKeys(anova_sig)

CombinedTable_Witness ==
    script = "pairwise" /\ pc = "done" /\ Len(anova_sig) = 1 /\ Len(final_results) = 3

----------------------------------------------------------------------------
(* Properties of the post-hoc rows of main.py (SpecMain) *)

\* the sheet's statistics are over
SheetDone == script = "main" /\ pc = "plot"

\* the gate of the post-hoc tests
PostHocGate == Len(groups) >= 2 /\ (\A k \in 1 .. Len(groups) : groups[k] > 0) /\ p_value < Alpha

\* C13: a sheet gets post-hoc rows only with at least two non-empty groups
\* and an ANOVA p-value below 0.05; then there is exactly one row per
\* unordered pair of conditions, whose "T-stat" is the t statistic of that
\* pair's test and whose "p-value (Bonferroni)" is that pair's p-value times
\* the number of comparisons, capped at 1.
C13_PostHocRows ==
    SheetDone =>
        /\ posthoc_results # <<>> => PostHocGate
        /\ PostHocGate =>
              /\ Len(posthoc_results) = Len(Combinations2(conditions))
              /\ \A k \in 1 .. Len(posthoc_results) :
                    /\ posthoc_results[k].Measure = sheet
                    /\ posthoc_results[k].Comparison = Combinations2(conditions)[k]
                    /\ posthoc_results[k].TStat = t_values[k]
                    /\ posthoc_results[k].PBonferroni =
                          (IF p_values[k] * Len(posthoc_results) < One
                           THEN p_values[k] * Len(posthoc_results) ELSE One)

\* the same without the "T-stat" field
PostHocRowsButTStat ==
    SheetDone =>
        /\ posthoc_results # <<>> => PostHocGate
        /\ PostHocGate =>
              /\ Len(posthoc_results) = Len(Combinations2(conditions))
              /\ \A k \in 1 .. Len(posthoc_results) :
                    /\ posthoc_results[k].Measure = sheet
                    /\ posthoc_results[k].Comparison = Combinations2(conditions)[k]
                    /\ posthoc_results[k].PBonferroni =
                          (IF p_values[k] * Len(posthoc_results) < One
                           THEN p_values[k] * Len(posthoc_results) ELSE One)

PostHocRows_Witness ==
    /\ SheetDone
    /\ sheet = 2
    /\ Len(posthoc_results) = 3
    /\ posthoc_results[2].PBonferroni = One
    /\ posthoc_results[3].PBonferroni < One

====
